---- MODULE Spec2Model ----
(***************************************************************************)
(* A model of vdirsyncer/cli/utils.py: the status store (paths,            *)
(* permissions, flat-JSON load/save, migration to the incremental store),  *)
(* the storage factory with its collection-not-found recovery, and the     *)
(* top-level error reporter.                                               *)
(*                                                                         *)
(* Five specifications share the variables:                                *)
(*   Spec         get_status_path / load_status / save_status on a disk    *)
(*   SpecPerm     assert_permissions on every mode and ceiling             *)
(*   SpecManage   manage_sync_status, step by step, with process crashes   *)
(*   SpecFactory  storage_instance_from_config and its recovery flow       *)
(*   SpecCli      handle_cli_error                                         *)
(***************************************************************************)
EXTENDS Integers, Sequences, FiniteSets, TLC

VARIABLES
    fs,     \* the disk: path -> entry (absent, file with content and mode, dir)
    hist,   \* the calls made so far, each with its arguments and its outcome
    pc,     \* position of the handler that is running ("idle" between calls)
    mem,    \* the running handler's local variables (lost when the process stops)
    inp,    \* the inputs a behaviour was started with
    storages,  \* storage_names._storages: name -> locator, or the class once resolved
    heap    \* the dict objects alive, by reference: a config is passed by reference

vars == <<fs, hist, pc, mem, inp, storages, heap>>

(***************************************************************************)
(* Bounds                                                                  *)
(***************************************************************************)
MaxVal == 2        \* status values are 1..MaxVal
MaxCalls == 3      \* manage_sync_status invocations in one behaviour

(***************************************************************************)
(* Program constants                                                       *)
(***************************************************************************)
STATUS_PERMISSIONS == \o600
STATUS_DIR_PERMISSIONS == \o700
PermMask == \o777            \* os.stat(path).st_mode & 0o777

None == "<None>"

(***************************************************************************)
(* Bit operations on 9-bit modes                                           *)
(***************************************************************************)
RECURSIVE BitAnd(_, _)
BitAnd(a, b) ==
    IF a = 0 \/ b = 0 THEN 0
    ELSE 2 * BitAnd(a \div 2, b \div 2) + (IF a % 2 = 1 /\ b % 2 = 1 THEN 1 ELSE 0)

\* the bits of mode that are not in ceiling
ExcessBits(mode, ceiling) == mode - BitAnd(mode, ceiling)

(***************************************************************************)
(* Values: status mappings, Python values, JSON documents, file contents   *)
(***************************************************************************)
Keys == {"a", "b"}
Vals == 1..MaxVal

\* the empty StatusRecord
EmptyMapping == << >>

PyDict(m) == [py |-> "dict", d |-> m]
PyInt(n) == [py |-> "int", n |-> n]
PyList(s) == [py |-> "list", items |-> s]
PyStr(s) == [py |-> "str", s |-> s]
PyNone == [py |-> "NoneType"]

\* JSON documents
JObject(members) == [j |-> "object", members |-> members]
JNumber(n) == [j |-> "number", n |-> n]
JArray(s) == [j |-> "array", items |-> s]
JString(s) == [j |-> "string", s |-> s]
JNull == [j |-> "null"]

\* file contents: JSON text, text that is not JSON, an sqlite database
JsonText(doc) == [t |-> "json", doc |-> doc]
Garbage(first) == [t |-> "garbage", first |-> first]
SqliteDb(rows) == [t |-> "sqlite", rows |-> rows]

\* json.dump(data, f) for a mapping: one member per key
json_dump(data) == JsonText(JObject({<<k, data[k]>> : k \in DOMAIN data}))

\* json.load(f): the Python value of the text, or ValueError (JSONDecodeError and
\* UnicodeDecodeError are both ValueError)
json_load(content) ==
    IF content.t # "json" THEN [ok |-> FALSE, exc |-> "ValueError"]
    ELSE LET doc == content.doc IN
         [ok |-> TRUE,
          v |-> CASE doc.j = "object" ->
                       PyDict([k \in {m[1] : m \in doc.members} |->
                                 (CHOOSE m \in doc.members : m[1] = k)[2]])
                  [] doc.j = "number" -> PyInt(doc.n)
                  [] doc.j = "array" -> PyList(doc.items)
                  [] doc.j = "string" -> PyStr(doc.s)
                  [] OTHER -> PyNone]

\* dict(x): a copy of a dict; {} for an empty iterable; ValueError for an element
\* of the wrong length (a one-character string); TypeError for an element that is
\* no sequence and for a value that is not iterable
py_dict(x) ==
    CASE x.py = "dict" -> [ok |-> TRUE, d |-> x.d]
      [] x.py = "list" -> IF x.items = << >> THEN [ok |-> TRUE, d |-> EmptyMapping]
                          ELSE [ok |-> FALSE, exc |-> "TypeError"]
      [] x.py = "str" -> IF x.s = "" THEN [ok |-> TRUE, d |-> EmptyMapping]
                         ELSE [ok |-> FALSE, exc |-> "ValueError"]
      [] OTHER -> [ok |-> FALSE, exc |-> "TypeError"]

\* the first byte of a file (f.read(1))
FirstByte(content) ==
    CASE content.t = "garbage" -> content.first
      [] content.t = "sqlite" -> "S"
      [] content.doc.j = "object" -> "{"
      [] content.doc.j = "number" -> "0"
      [] content.doc.j = "array" -> "["
      [] content.doc.j = "string" -> "\""
      [] OTHER -> "n"

(***************************************************************************)
(* Paths: sequences of components                                          *)
(***************************************************************************)
BasePath == <<"~", "status">>
Home == <<"home">>
Pair == "pair"
Coll == "coll"
DataTypes == {"items", "metadata"}

\* os.path.join(base_path, status_name)
path_join(base, name) == base \o name

\* expand_path: "~" is the user's home
expand_path(p) == IF p # << >> /\ p[1] = "~" THEN Home \o Tail(p) ELSE p

\* path + suffix
Suffixed(p, suffix) == [p EXCEPT ![Len(p)] = @ \o suffix]

\* os.path.dirname
dirname(p) == SubSeq(p, 1, Len(p) - 1)

get_status_name(pair, collection) ==
    IF collection = None THEN <<pair>> ELSE <<pair, collection>>

StatusDir == expand_path(BasePath)
PairPath == StatusDir \o <<Pair>>
CollPath == PairPath \o <<Coll>>
Dirs == {StatusDir, PairPath}
Unsuffixed == {PairPath, CollPath}
Paths == Dirs \cup Unsuffixed \cup
         {Suffixed(p, "." \o dt) : p \in Unsuffixed, dt \in DataTypes}

Absent == [k |-> "absent"]
File(content, mode) == [k |-> "file", content |-> content, mode |-> mode]
Dir(mode) == [k |-> "dir", mode |-> mode]

exists(f, p) == p = Home \/ (p \in DOMAIN f /\ f[p].k # "absent")
isfile(f, p) == p \in DOMAIN f /\ f[p].k = "file"
isdir(f, p) == p = Home \/ (p \in DOMAIN f /\ f[p].k = "dir")

(***************************************************************************)
(* Filesystem primitives                                                   *)
(***************************************************************************)
S_IFREG == \o100000
S_IFDIR == \o040000
Umask == \o022

\* os.stat(path).st_mode
st_mode(f, p) == (IF f[p].k = "dir" THEN S_IFDIR ELSE S_IFREG) + f[p].mode

\* os.chmod(path, mode)
chmod(f, p, mode) == [f EXCEPT ![p].mode = mode]

\* os.rename(src, dst) of a regular file: dst is replaced
rename(f, src, dst) == [f EXCEPT ![dst] = f[src], ![src] = Absent]

\* os.remove(path)
remove(f, p) == [f EXCEPT ![p] = Absent]

\* os.mkdir(name, mode): EEXIST when name exists, ENOTDIR when its parent is a file,
\* ENOENT when its parent is missing
mkdir(f, name, mode) ==
    CASE exists(f, name) -> [fs |-> f, exc |-> "EEXIST"]
      [] isdir(f, dirname(name)) ->
             [fs |-> [f EXCEPT ![name] = Dir(BitAnd(mode, PermMask - Umask))], exc |-> "ok"]
      [] exists(f, dirname(name)) -> [fs |-> f, exc |-> "ENOTDIR"]
      [] OTHER -> [fs |-> f, exc |-> "ENOENT"]

\* os.makedirs(name, mode): missing ancestors are created first, with the default
\* mode; an EEXIST from creating an ancestor is ignored, any other error is raised
RECURSIVE makedirs(_, _, _)
makedirs(f, name, mode) ==
    LET head == dirname(name)
        up == IF head # << >> /\ ~exists(f, head)
              THEN makedirs(f, head, PermMask) ELSE [fs |-> f, exc |-> "ok"]
    IN IF up.exc \notin {"ok", "EEXIST"} THEN up ELSE mkdir(up.fs, name, mode)

(***************************************************************************)
(* assert_permissions(path, wanted)                                        *)
(***************************************************************************)
assert_permissions(f, path, wanted) ==
    LET permissions == BitAnd(st_mode(f, path), PermMask) IN
    IF permissions > wanted
    THEN [fs |-> chmod(f, path, wanted), warned |-> TRUE]
    ELSE [fs |-> f, warned |-> FALSE]

(***************************************************************************)
(* get_status_path(base_path, pair, collection, data_type)                 *)
(***************************************************************************)
GetStatusPathAnyType(f, base_path, pair, collection, data_type) ==
    LET path == expand_path(path_join(base_path, get_status_name(pair, collection)))
        legacy == isfile(f, path)
    IN [fs |-> IF legacy THEN rename(f, path, Suffixed(path, ".items")) ELSE f,
        renamed |-> legacy,
        path |-> Suffixed(path, "." \o data_type)]

get_status_path(f, base_path, pair, collection, data_type) ==
    LET path == expand_path(path_join(base_path, get_status_name(pair, collection)))
        legacy == isfile(f, path) /\ data_type = "items"
        new_path == Suffixed(path, ".items")
    IN [fs |-> IF legacy THEN rename(f, path, new_path) ELSE f,
        renamed |-> legacy,      \* the "Migrating statuses" warning is logged
        path |-> Suffixed(path, "." \o data_type)]

(***************************************************************************)
(* prepare_status_path(path)                                               *)
(***************************************************************************)
prepare_status_path(f, path) ==
    LET r == makedirs(f, dirname(path), STATUS_DIR_PERMISSIONS) IN
    IF r.exc = "EEXIST" THEN [fs |-> r.fs, exc |-> "ok"] ELSE r

(***************************************************************************)
(* load_status(base_path, pair, collection, data_type)                     *)
(***************************************************************************)
load_status(f, base_path, pair, collection, data_type) ==
    LET g == get_status_path(f, base_path, pair, collection, data_type)
        path == g.path
    IN IF ~exists(g.fs, path)
       THEN [fs |-> g.fs, path |-> path, renamed |-> g.renamed, warned |-> FALSE,
             out |-> "ok", val |-> EmptyMapping]
       ELSE LET a == assert_permissions(g.fs, path, STATUS_PERMISSIONS)
                loaded == json_load(a.fs[path].content)
                asdict == IF loaded.ok THEN py_dict(loaded.v) ELSE loaded
            IN [fs |-> a.fs, path |-> path, renamed |-> g.renamed,
                warned |-> a.warned,
                \* except ValueError: pass; every other exception propagates
                out |-> IF asdict.ok \/ asdict.exc = "ValueError"
                        THEN "ok" ELSE asdict.exc,
                val |-> IF asdict.ok THEN asdict.d ELSE EmptyMapping]

(***************************************************************************)
(* save_status(base_path, pair, data_type, data, collection)               *)
(***************************************************************************)
\* atomic_write(path, mode="w", overwrite=True): the text goes to a temporary file
\* beside path, which then replaces path; ENOTDIR when the directory is a file
atomic_write(f, path, content) ==
    IF ~isdir(f, dirname(path)) THEN [fs |-> f, exc |-> "ENOTDIR"]
    ELSE [fs |-> [f EXCEPT ![path] = File(content, BitAnd(\o666, PermMask - Umask))],
          exc |-> "ok"]

save_status(f, base_path, pair, data_type, data, collection) ==
    LET status_name == get_status_name(pair, collection)
        path == Suffixed(expand_path(path_join(base_path, status_name)),
                         "." \o data_type)
        p == prepare_status_path(f, path)
        w == IF p.exc = "ok" THEN atomic_write(p.fs, path, json_dump(data)) ELSE p
    IN [fs |-> IF w.exc = "ok" THEN chmod(w.fs, path, STATUS_PERMISSIONS) ELSE w.fs,
        path |-> path,
        out |-> w.exc]

(***************************************************************************)
(* The storage registry (_StorageIndex)                                    *)
(***************************************************************************)
Locator(module, clsname) == [module |-> module, clsname |-> clsname]

\* _StorageIndex.__init__
RegisteredStorages ==
    [caldav |-> Locator("vdirsyncer.storage.dav", "CalDAVStorage"),
     carddav |-> Locator("vdirsyncer.storage.dav", "CardDAVStorage"),
     filesystem |-> Locator("vdirsyncer.storage.filesystem", "FilesystemStorage"),
     http |-> Locator("vdirsyncer.storage.http", "HttpStorage"),
     singlefile |-> Locator("vdirsyncer.storage.singlefile", "SingleFileStorage"),
     google_calendar |-> Locator("vdirsyncer.storage.google", "GoogleCalendarStorage"),
     google_contacts |-> Locator("vdirsyncer.storage.google", "GoogleContactsStorage")]

Unresolved == [n \in DOMAIN RegisteredStorages |->
                 [resolved |-> FALSE, locator |-> RegisteredStorages[n]]]

\* the storage_name each storage class declares
StorageNames ==
    [CalDAVStorage |-> "caldav",
     CardDAVStorage |-> "carddav",
     FilesystemStorage |-> "filesystem",
     HttpStorage |-> "http",
     SingleFileStorage |-> "singlefile",
     GoogleCalendarStorage |-> "google_calendar",
     GoogleContactsStorage |-> "google_contacts"]

\* the declarations of the modules this behaviour imports from: those above,
\* unless the behaviour was started with modules that declare otherwise
Declared == IF "declared" \in DOMAIN inp THEN inp.declared ELSE StorageNames

\* what importing a locator yields: the class with its declared storage_name,
\* whether it is a DAVStorage or HttpStorage, and the parameters of its __init__
\* as get_storage_init_args reports them
Import(locator) ==
    LET network == locator.module \in {"vdirsyncer.storage.dav",
                                       "vdirsyncer.storage.http",
                                       "vdirsyncer.storage.google"}
        own == IF network THEN {"url"} ELSE {"path"}
    IN [clsname |-> locator.clsname,
        storage_name |-> Declared[locator.clsname],
        network |-> network,
        required |-> own,
        all |-> own \cup {"instance_name", "read_only", "collection"}
                    \cup (IF network THEN {"connector"} ELSE {})]

NoClass ==
    [clsname |-> "", storage_name |-> "", network |-> FALSE, required |-> {},
     all |-> {}]

\* storage_names[name]
storage_names_getitem(reg, name) ==
    IF name \notin DOMAIN reg
    THEN [storages |-> reg, out |-> "KeyError", cls |-> NoClass]
    ELSE LET item == reg[name] IN
         IF item.resolved
         THEN [storages |-> reg, out |-> "ok", cls |-> item.cls]
         ELSE LET rv == Import(item.locator)
                  cached == [reg EXCEPT ![name] = [resolved |-> TRUE, cls |-> rv]]
              IN [storages |-> cached,
                  out |-> IF rv.storage_name = name THEN "ok" ELSE "AssertionError",
                  cls |-> rv]

(***************************************************************************)
(* Spec: the flat-JSON status store on a disk                              *)
(***************************************************************************)
InitModes == {\o400, \o644}
DirModes == {\o700, \o755}

\* the mappings the callers save and the disk may already hold
StatusRecords == {EmptyMapping} \cup {[k \in {"a"} |-> v] : v \in Vals}
                 \cup {[k \in Keys |-> 1]}

\* what the .items path may hold before the program runs: status objects, other
\* JSON values, text that is not JSON, an incremental store
InitContents ==
    {json_dump(m) : m \in {EmptyMapping, [k \in Keys |-> 1]}}
    \cup {JsonText(JNumber(1)), JsonText(JArray(<< >>)), JsonText(JArray(<<1, 2>>)),
          JsonText(JString("")), JsonText(JString("ab")), JsonText(JNull),
          Garbage("{"), Garbage("x"), SqliteDb([k \in {"a"} |-> 1])}
InitFiles == {Absent} \cup {File(c, m) : c \in InitContents, m \in InitModes}

\* what the extensionless path of the oldest format may hold
LegacyFiles == {Absent} \cup
    {File(c, m) : c \in {json_dump([k \in {"a"} |-> 1]), Garbage("x")}, m \in InitModes}

NoDisk == [p \in Paths |-> Absent]

\* the disks on which the status of (Pair, collection) may be found
InitDisks(collection) ==
    IF collection = None
    THEN {NoDisk} \cup
         {[NoDisk EXCEPT ![StatusDir] = Dir(dm),
                         ![PairPath] = legacy,
                         ![Suffixed(PairPath, ".items")] = items] :
             dm \in DirModes, legacy \in LegacyFiles, items \in InitFiles}
    ELSE {NoDisk, [NoDisk EXCEPT ![StatusDir] = Dir(\o700)]} \cup
         {[NoDisk EXCEPT ![StatusDir] = Dir(\o700),
                         ![PairPath] = Dir(dm),
                         ![CollPath] = legacy,
                         ![Suffixed(CollPath, ".items")] = items] :
             dm \in DirModes, legacy \in LegacyFiles, items \in InitFiles}
         \cup
         {[NoDisk EXCEPT ![StatusDir] = Dir(\o700), ![PairPath] = legacy] :
             legacy \in LegacyFiles \ {Absent}}

Idle == [legacy_status |-> [some |-> FALSE, d |-> EmptyMapping], path |-> << >>]

\* the last call and the one before it
Remember(call) == IF hist = << >> THEN <<call>> ELSE <<hist[Len(hist)], call>>

Init ==
    /\ inp \in [collection : {None, Coll}]
    /\ storages = Unresolved
    /\ heap = << >>
    /\ fs \in InitDisks(inp.collection)
    /\ hist = << >>
    /\ pc = "idle"
    /\ mem = Idle

GetStatusPath(data_type) ==
    LET r == get_status_path(fs, BasePath, Pair, inp.collection, data_type) IN
    /\ fs' = r.fs
    /\ hist' = Remember([op |-> "get_status_path", data_type |-> data_type,
                         data |-> EmptyMapping, out |-> "ok", val |-> EmptyMapping,
                         path |-> r.path, renamed |-> r.renamed, warned |-> FALSE])
    /\ UNCHANGED <<pc, mem, inp, storages, heap>>

LoadStatus(data_type) ==
    LET r == load_status(fs, BasePath, Pair, inp.collection, data_type) IN
    /\ fs' = r.fs
    /\ hist' = Remember([op |-> "load_status", data_type |-> data_type,
                         data |-> EmptyMapping, out |-> r.out, val |-> r.val,
                         path |-> r.path, renamed |-> r.renamed, warned |-> r.warned])
    /\ UNCHANGED <<pc, mem, inp, storages, heap>>

SaveStatus(data_type, data) ==
    LET r == save_status(fs, BasePath, Pair, data_type, data, inp.collection) IN
    /\ fs' = r.fs
    /\ hist' = Remember([op |-> "save_status", data_type |-> data_type,
                         data |-> data, out |-> r.out, val |-> EmptyMapping,
                         path |-> r.path, renamed |-> FALSE, warned |-> FALSE])
    /\ UNCHANGED <<pc, mem, inp, storages, heap>>

Next ==
    \/ \E data_type \in DataTypes : GetStatusPath(data_type)
    \/ \E data_type \in DataTypes : LoadStatus(data_type)
    \/ \E data_type \in DataTypes, data \in StatusRecords : SaveStatus(data_type, data)

Spec == Init /\ [][Next]_vars

(***************************************************************************)
(* SpecPerm: assert_permissions applied once to a file of every mode,      *)
(* with every ceiling                                                      *)
(***************************************************************************)
ItemsPath == Suffixed(PairPath, ".items")

InitPerm ==
    /\ inp \in [mode : 0..PermMask, wanted : 0..PermMask]
    /\ storages = Unresolved
    /\ heap = << >>
    /\ fs = [NoDisk EXCEPT ![StatusDir] = Dir(\o700),
                           ![ItemsPath] = File(json_dump(EmptyMapping), inp.mode)]
    /\ hist = << >>
    /\ pc = "idle"
    /\ mem = Idle

AssertPermissions ==
    /\ hist = << >>
    /\ LET r == assert_permissions(fs, ItemsPath, inp.wanted) IN
       /\ fs' = r.fs
       /\ hist' = <<[op |-> "assert_permissions", out |-> "ok", warned |-> r.warned]>>
    /\ UNCHANGED <<pc, mem, inp, storages, heap>>

NextPerm == AssertPermissions

SpecPerm == InitPerm /\ [][NextPerm]_vars

(***************************************************************************)
(* Claims about the flat-JSON store and the permission guard               *)
(***************************************************************************)
SavedThenLoaded ==
    /\ inp.collection = None
    /\ Len(hist) = 2
    /\ hist[1].op = "save_status" /\ hist[1].data_type = "items"
    /\ hist[1].out = "ok"
    /\ hist[2].op = "load_status" /\ hist[2].data_type = "items"

\* C1: save_status(base, pair, "items", data) followed by
\* load_status(base, pair, None, "items") returns a mapping equal to data, and the
\* file <base>/<pair>.items then has mode exactly 0600, whatever the status
\* directory held before (a legacy extensionless file included).
C1_RoundTrip ==
    SavedThenLoaded =>
        /\ hist[2].out = "ok"
        /\ hist[2].val = hist[1].data
        /\ isfile(fs, hist[2].path)
        /\ fs[hist[2].path].mode = STATUS_PERMISSIONS

\* C18: the rename of the oldest format never destroys status data: after a
\* save to <path>.items, a get_status_path or load_status for data type "items"
\* (which finds the extensionless file next to it, when there is one) leaves the
\* .items file with the content that was saved.
C18_RenameKeepsItems ==
    (/\ Len(hist) = 2
     /\ hist[1].op = "save_status" /\ hist[1].data_type = "items"
     /\ hist[1].out = "ok"
     /\ hist[2].op \in {"get_status_path", "load_status"}
     /\ hist[2].data_type = "items")
    => /\ isfile(fs, hist[1].path)
       /\ fs[hist[1].path].content = json_dump(hist[1].data)

\* C4: assert_permissions treats the ceiling as a bitmask: a mode with a bit
\* outside the ceiling ends as exactly the ceiling, any other mode is unchanged,
\* and the call does not raise.
C4_BitmaskCeiling ==
    (hist # << >> /\ hist[1].op = "assert_permissions") =>
        /\ hist[1].out = "ok"
        /\ fs[ItemsPath].mode =
              IF ExcessBits(inp.mode, inp.wanted) # 0 THEN inp.wanted ELSE inp.mode

\* the mapping a status file stores: that of a JSON object, else none
StoredMapping(content) ==
    IF content.t = "json" /\ content.doc.j = "object"
    THEN [k \in {m[1] : m \in content.doc.members} |->
            (CHOOSE m \in content.doc.members : m[1] = k)[2]]
    ELSE EmptyMapping

\* C5: load_status never raises because of the status file: it returns the empty
\* mapping when the path is absent and for every corrupted content (not JSON, or
\* JSON that is no object), and the stored mapping when the file holds an object.
C5_LoadNeverRaises ==
    (hist # << >> /\ hist[Len(hist)].op = "load_status") =>
        LET call == hist[Len(hist)] IN
        /\ call.out = "ok"
        /\ call.val = IF isfile(fs, call.path)
                      THEN StoredMapping(fs[call.path].content) ELSE EmptyMapping

ExpectedPath(data_type) ==
    LET dir == <<"home", "status">>
        name == IF inp.collection = None THEN <<Pair \o "." \o data_type>>
                ELSE <<Pair, inp.collection \o "." \o data_type>>
    IN dir \o name

ResolvedTwice ==
    /\ Len(hist) = 2
    /\ hist[1].op = "get_status_path" /\ hist[2].op = "get_status_path"
    /\ hist[1].data_type = hist[2].data_type

\* C6: get_status_path is idempotent: two consecutive calls with the same arguments
\* return the same path, basePath/pair[/collection] followed by "." + dataType, and
\* rename the extensionless file at most once between them; with a dataType other
\* than "items" nothing is renamed and the disk is unchanged.
C6_StatusPathIdempotent ==
    /\ [](ResolvedTwice =>
            /\ hist[1].path = hist[2].path
            /\ hist[2].path = ExpectedPath(hist[2].data_type)
            /\ ~(hist[1].renamed /\ hist[2].renamed))
    /\ [][\A data_type \in DataTypes \ {"items"} :
            GetStatusPath(data_type) =>
                fs' = fs /\ ~hist'[Len(hist')].renamed]_vars

\* the extensionless file was renamed by the first call and not by the second
C6_Witness ==
    /\ ResolvedTwice
    /\ hist[1].data_type = "items"
    /\ hist[1].renamed /\ ~hist[2].renamed
    /\ inp.collection = Coll

(***************************************************************************)
(* SqliteStatus: the incremental store kept in one file                    *)
(***************************************************************************)
\* SqliteStatus(path): opens the database at path, creating an empty one when the
\* file is absent; fails when the directory is missing or the file is no database
SqliteStatus(f, path) ==
    CASE ~isdir(f, dirname(path)) -> [fs |-> f, exc |-> "OperationalError"]
      [] ~exists(f, path) ->
             [fs |-> [f EXCEPT ![path] =
                        File(SqliteDb(EmptyMapping), BitAnd(\o666, PermMask - Umask))],
              exc |-> "ok"]
      [] f[path].content.t = "sqlite" -> [fs |-> f, exc |-> "ok"]
      [] OTHER -> [fs |-> f, exc |-> "DatabaseError"]

\* status.load_legacy_status(legacy_status): every entry is written in one transaction
load_legacy_status(f, path, legacy_status) ==
    LET rows == f[path].content.rows IN
    [f EXCEPT ![path].content =
        SqliteDb([k \in DOMAIN rows \cup DOMAIN legacy_status |->
                    IF k \in DOMAIN legacy_status THEN legacy_status[k] ELSE rows[k]])]

(***************************************************************************)
(* manage_sync_status(base_path, pair_name, collection_name), one action   *)
(* per statement, so that the process may stop between any two             *)
(***************************************************************************)
NoLegacy == [some |-> FALSE, d |-> EmptyMapping]

\* the flat-JSON status object a file holds, if it holds one
LegacyOf(f, path) ==
    IF isfile(f, path) /\ f[path].content.t = "json" /\ f[path].content.doc.j = "object"
    THEN [some |-> TRUE, d |-> StoredMapping(f[path].content)]
    ELSE NoLegacy

Returned(out) ==
    [op |-> "manage_sync_status", out |-> out, path |-> mem.path,
     entry |-> mem.entry, legacy |-> mem.legacy_status, removed |-> mem.removed]

\* found is what was at the path when the call began
Running(path, entry) ==
    [legacy_status |-> NoLegacy, path |-> path, entry |-> entry, removed |-> FALSE,
     found |-> Absent]

\* path = get_status_path(base_path, pair_name, collection_name, "items")
MResolve ==
    /\ pc = "idle"
    /\ Len(hist) < MaxCalls
    /\ LET r == get_status_path(fs, BasePath, Pair, inp.collection, "items") IN
       /\ fs' = r.fs
       /\ mem' = [Running(r.path, LegacyOf(fs, r.path)) EXCEPT !.found = fs[r.path]]
    /\ pc' = "peek"
    /\ UNCHANGED <<hist, inp, storages, heap>>

\* the peek: a file whose first byte is "{" is parsed as the legacy status
peek_legacy(f, path) ==
    IF ~isfile(f, path) THEN NoLegacy                           \* OSError
    ELSE IF FirstByte(f[path].content) # "{" THEN NoLegacy
    ELSE LET loaded == json_load(f[path].content)
             asdict == IF loaded.ok THEN py_dict(loaded.v) ELSE loaded
         IN IF asdict.ok THEN [some |-> TRUE, d |-> asdict.d]
            ELSE NoLegacy                                       \* ValueError

MPeek ==
    /\ pc = "peek"
    /\ LET legacy_status == peek_legacy(fs, mem.path) IN
       /\ mem' = [mem EXCEPT !.legacy_status = legacy_status]
       /\ pc' = IF legacy_status.some THEN "remove" ELSE "prepare"
    /\ UNCHANGED <<fs, hist, inp, storages, heap>>

\* os.remove(path)
MRemove ==
    /\ pc = "remove"
    /\ fs' = remove(fs, mem.path)
    /\ mem' = [mem EXCEPT !.removed = TRUE]
    /\ pc' = "create"
    /\ UNCHANGED <<hist, inp, storages, heap>>

\* status = SqliteStatus(path)
MCreate ==
    /\ pc = "create"
    /\ LET r == SqliteStatus(fs, mem.path) IN
       /\ fs' = r.fs
       /\ IF r.exc = "ok"
          THEN pc' = "import" /\ hist' = hist
          ELSE pc' = "idle" /\ hist' = Append(hist, Returned(r.exc))
    /\ UNCHANGED <<mem, inp, storages, heap>>

\* status.load_legacy_status(legacy_status); yield status
MImport ==
    /\ pc = "import"
    /\ fs' = load_legacy_status(fs, mem.path, mem.legacy_status.d)
    /\ pc' = "idle"
    /\ hist' = Append(hist, Returned("ok"))
    /\ UNCHANGED <<mem, inp, storages, heap>>

\* prepare_status_path(path)
MPrepare ==
    /\ pc = "prepare"
    /\ LET r == prepare_status_path(fs, mem.path) IN
       /\ fs' = r.fs
       /\ IF r.exc = "ok"
          THEN pc' = "open" /\ hist' = hist
          ELSE pc' = "idle" /\ hist' = Append(hist, Returned(r.exc))
    /\ UNCHANGED <<mem, inp, storages, heap>>

\* status = SqliteStatus(path); yield status
MOpen ==
    /\ pc = "open"
    /\ LET r == SqliteStatus(fs, mem.path) IN
       /\ fs' = r.fs
       /\ hist' = Append(hist, Returned(r.exc))
    /\ pc' = "idle"
    /\ UNCHANGED <<mem, inp, storages, heap>>

\* the process stops: what it held in memory is gone, the disk stays as it is
Crash ==
    /\ pc # "idle"
    /\ pc' = "idle"
    /\ hist' = Append(hist, Returned("crash"))
    /\ mem' = Running(<< >>, NoLegacy)
    /\ UNCHANGED <<fs, inp, storages, heap>>

InitManage ==
    /\ inp = [collection |-> Coll]
    /\ storages = Unresolved
    /\ heap = << >>
    /\ fs \in InitDisks(Coll)
    /\ hist = << >>
    /\ pc = "idle"
    /\ mem = Running(<< >>, NoLegacy)

NextManage ==
    \/ MResolve
    \/ MPeek
    \/ MRemove
    \/ MCreate
    \/ MImport
    \/ MPrepare
    \/ MOpen
    \/ Crash

SpecManage == InitManage /\ [][NextManage]_vars

(***************************************************************************)
(* Claims about the migration to the incremental store                     *)
(***************************************************************************)
Contains(m, d) == \A k \in DOMAIN d : k \in DOMAIN m /\ m[k] = d[k]

\* every entry of d can be read back from the file at path, be it still the legacy
\* file or already the incremental store
Recoverable(f, path, d) ==
    /\ isfile(f, path)
    /\ \/ LegacyOf(f, path).some /\ Contains(LegacyOf(f, path).d, d)
       \/ f[path].content.t = "sqlite" /\ Contains(f[path].content.rows, d)

\* C2: the migration loses no data under crashes: whenever the process has stopped
\* or returned, every key/value of a legacy file that a call has parsed is still on
\* disk, in the legacy file or in the incremental store.
C2_NoDataLossUnderCrash ==
    pc = "idle" =>
        \A i \in 1..Len(hist) :
            hist[i].legacy.some => Recoverable(fs, hist[i].path, hist[i].legacy.d)

\* C3: a call that finds a flat-JSON legacy file at the .items path removes it and
\* yields an incremental store at that path holding exactly the legacy key/value
\* pairs; over repeated calls the migration is performed at most once.
C3_MigratesOnce ==
    /\ \A i \in 1..Len(hist) :
          (hist[i].entry.some /\ hist[i].out # "crash") =>
              /\ hist[i].out = "ok"
              /\ hist[i].removed
              /\ hist[i].legacy = hist[i].entry
              /\ (i = Len(hist) /\ pc = "idle") =>
                    /\ isfile(fs, hist[i].path)
                    /\ fs[hist[i].path].content = SqliteDb(hist[i].entry.d)
    /\ Cardinality({i \in 1..Len(hist) : hist[i].removed}) <= 1

\* C13: once prepare_status_path(path) has returned normally, the parent
\* directory of path exists and its mode has no bit beyond 0700, whether the call
\* created the directory or found it.
C13_ParentWithinCeiling ==
    pc = "open" =>
        /\ isdir(fs, dirname(mem.path))
        /\ ExcessBits(fs[dirname(mem.path)].mode, STATUS_DIR_PERMISSIONS) = 0

\* C17: the legacy peek never blocks and never destroys a file that is no legacy
\* status: when the .items file of a call is absent or holds no flat-JSON
\* object, the call does not remove it and leaves it as it was found, makes
\* sure that the parent directory exists and goes on to open the incremental
\* store at the same path; a file is removed only when it had been parsed as a
\* legacy JSON object.
C17_PeekSparesOtherFiles ==
    /\ pc \in {"peek", "prepare", "open", "remove", "create", "import"} =>
          (~mem.entry.some =>
              /\ pc \in {"peek", "prepare", "open"}
              /\ ~mem.removed
              /\ mem.found.k = "file" => fs[mem.path] = mem.found)
    /\ pc = "open" => isdir(fs, dirname(mem.path))
    /\ pc = "remove" => LegacyOf(fs, mem.path) = mem.legacy_status
    /\ \A i \in 1..Len(hist) : hist[i].removed => hist[i].legacy.some

(***************************************************************************)
(* SpecRegistry: lookups storage_names[name], one after the other, in a    *)
(* process whose storage modules may declare a storage_name other than the *)
(* one the class is registered under                                       *)
(***************************************************************************)
LookupNames == {"caldav", "carddav", "filesystem", "singlefile", "bogus"}

\* the modules as they are, and with one class that declares another name
Declarations ==
    {StorageNames,
     [StorageNames EXCEPT !["CalDAVStorage"] = "carddav"],
     [StorageNames EXCEPT !["FilesystemStorage"] = "fs"]}

Looked(name, r) == [op |-> "getitem", name |-> name, out |-> r.out, cls |-> r.cls]

\* storage_names[name]
Lookup(name) ==
    /\ Len(hist) < MaxCalls
    /\ LET r == storage_names_getitem(storages, name) IN
       /\ storages' = r.storages
       /\ hist' = Append(hist, Looked(name, r))
    /\ UNCHANGED <<fs, pc, mem, inp, heap>>

InitRegistry ==
    /\ inp \in [declared : Declarations]
    /\ storages = Unresolved
    /\ heap = << >>
    /\ fs = NoDisk
    /\ hist = << >>
    /\ pc = "idle"
    /\ mem = Idle

NextRegistry == \E name \in LookupNames : Lookup(name)

SpecRegistry == InitRegistry /\ [][NextRegistry]_vars

\* C16: over any sequence of lookups, every implementation the registry returns
\* for a name declares that name as its storage_name; an implementation that
\* declares another name is rejected by every lookup, the first and the later.
C16_ReturnedDeclaresItsName ==
    \A i \in 1..Len(hist) :
        /\ hist[i].out = "ok" => hist[i].cls.storage_name = hist[i].name
        /\ (hist[i].name \in DOMAIN RegisteredStorages
              /\ Import(RegisteredStorages[hist[i].name]).storage_name # hist[i].name)
             => hist[i].out = "AssertionError"

(***************************************************************************)
(* Exceptions                                                              *)
(***************************************************************************)
Exc(kind) ==
    [kind |-> kind, init |-> FALSE, text |-> "", collection |-> "", storage |-> "",
     missing |-> {}, invalid |-> {}]

NoExc == Exc("")

\* the closed error kinds handle_cli_error has a clause for
Taxonomy ==
    {"UserError", "StorageEmpty", "PartialSync", "SyncConflict", "IdentConflict",
     "Abort", "KeyboardInterrupt", "JobFailed", "PairNotFound", "InvalidResponse",
     "CollectionRequired"}

(***************************************************************************)
(* storage_class_from_config, handle_storage_init_error                    *)
(***************************************************************************)
Without(config, key) == [k \in DOMAIN config \ {key} |-> config[k]]
With(config, key, value) ==
    [k \in DOMAIN config \cup {key} |-> IF k = key THEN value ELSE config[k]]
Get(config, key) == IF key \in DOMAIN config THEN config[key] ELSE None

\* the variant of dict(d) that hands back the same object
DictAlias(h, ref) == [heap |-> h, ref |-> ref]

\* dict objects: dict(d) allocates a copy, pop and item assignment change the
\* object in place, for every holder of the reference
dict_copy(h, ref) == [heap |-> Append(h, h[ref]), ref |-> Len(h) + 1]
dict_new(h, d) == [heap |-> Append(h, d), ref |-> Len(h) + 1]
dict_pop(h, ref, key) == [h EXCEPT ![ref] = Without(@, key)]
dict_setitem(h, ref, key, value) == [h EXCEPT ![ref] = With(@, key, value)]

\* the variant that pops "type" from the mapping it was handed
StorageClassFromConfigInPlace(reg, h, config) ==
    LET storage_name == h[config]["type"]
        r == storage_names_getitem(reg, storage_name)
    IN [storages |-> r.storages,
        heap |-> dict_pop(h, config, "type"),
        cls |-> r.cls,
        config |-> config,
        exc |-> CASE r.out = "ok" -> NoExc
                  [] r.out = "KeyError" ->
                         [Exc("UserError") EXCEPT !.text = "Unknown storage type",
                                                  !.storage = storage_name]
                  [] OTHER -> Exc(r.out)]

\* config = dict(config); storage_name = config.pop("type"); the lookup; the
\* result holds the class and the reference of the copy
storage_class_from_config(reg, h, config) ==
    LET copy == dict_copy(h, config)
        storage_name == copy.heap[copy.ref]["type"]
        r == storage_names_getitem(reg, storage_name)
    IN [storages |-> r.storages,
        heap |-> dict_pop(copy.heap, copy.ref, "type"),
        cls |-> r.cls,
        config |-> copy.ref,
        exc |-> CASE r.out = "ok" -> NoExc
                  [] r.out = "KeyError" ->
                         [Exc("UserError") EXCEPT !.text = "Unknown storage type",
                                                  !.storage = storage_name]
                  [] OTHER -> Exc(r.out)]

HandleStorageInitErrorWrapAll(cls, config, e) ==
    [Exc("UserError") EXCEPT !.text = "Failed to initialize",
                             !.storage = Get(config, "instance_name")]

\* what handle_storage_init_error raises for the exception e in flight
handle_storage_init_error(cls, config, e) ==
    IF e.kind # "TypeError" \/ ~e.init THEN e
    ELSE LET given == DOMAIN config
             missing == cls.required \ given
             invalid == given \ cls.all
         IN IF missing = {} /\ invalid = {} THEN e
            ELSE IF "instance_name" \notin DOMAIN config THEN Exc("KeyError")
            ELSE [Exc("UserError") EXCEPT !.text = "Failed to initialize",
                                          !.storage = config["instance_name"],
                                          !.missing = missing,
                                          !.invalid = invalid]

\* the final UserError of handle_collection_not_found
UnableToFindOrCreate(collection, storage_name) ==
    [Exc("UserError") EXCEPT !.text = "Unable to find or create collection",
                             !.collection = collection,
                             !.storage = storage_name]

(***************************************************************************)
(* SpecFactory: storage_instance_from_config(config, create), one action   *)
(* per suspension point (construction, the prompt, create_collection)      *)
(***************************************************************************)
ConfigTypes == {"filesystem", "caldav", "bogus"}
OptionalKeys == {"collection", "path", "url"}

ConfigValue(k, type) ==
    CASE k = "type" -> type
      [] k = "instance_name" -> "my_storage"
      [] k = "collection" -> "work"
      [] OTHER -> "given"

\* a StorageConfig always holds type and instance_name
Configs ==
    {[k \in {"type", "instance_name"} \cup K |-> ConfigValue(k, type)] :
        type \in ConfigTypes, K \in SUBSET OptionalKeys}

\* how cls(**new_config) may end when the parameters fit
ConstructOutcomes ==
    {"ok", "CollectionNotFound", "TypeError__init__", "TypeError", "OSError",
     "KeyboardInterrupt"}

Raised(outcome) ==
    IF outcome = "TypeError__init__" THEN [Exc("TypeError") EXCEPT !.init = TRUE]
    ELSE Exc(outcome)

\* the reference under which the caller's config lives
CallerConfig == 1

\* no dict bound yet
Unbound == 0

\* the locals of one storage_instance_from_config(config, create) call; config
\* and new_config are references into heap
Frame(config, create) ==
    [config |-> config, create |-> create, cls |-> NoClass,
     new_config |-> Unbound, collection |-> None,
     storage_name |-> None,
     result |-> [out |-> "running", exc |-> NoExc],
     raised |-> [step |-> "", exc |-> NoExc]]

Event(ev, out) == [ev |-> ev, create |-> mem.create, out |-> out]

Fail(step, raised, exc) ==
    [mem EXCEPT !.result = [out |-> "raise", exc |-> exc],
                !.raised = [step |-> step, exc |-> raised]]

\* the create flag of the retry after a recovery
RetryCreateAgain == TRUE

RetryCreate == FALSE

\* cls, new_config = storage_class_from_config(config); the connector is added
\* for a DAVStorage or HttpStorage
FResolve ==
    /\ pc = "call"
    /\ LET r == storage_class_from_config(storages, heap, mem.config) IN
       /\ storages' = r.storages
       /\ IF r.exc # NoExc
          THEN /\ mem' = Fail("storage_class_from_config", r.exc, r.exc)
               /\ heap' = r.heap
               /\ pc' = "done"
          ELSE /\ mem' = [mem EXCEPT !.cls = r.cls, !.new_config = r.config]
               /\ heap' = IF r.cls.network
                          THEN dict_setitem(r.heap, r.config, "connector", "shared")
                          ELSE r.heap
               /\ pc' = "construct"
    /\ UNCHANGED <<fs, hist, inp>>

\* try: return cls(**new_config), with both except clauses
FConstruct(outcome) ==
    /\ pc = "construct"
    /\ LET given == DOMAIN heap[mem.new_config]
           fits == mem.cls.required \subseteq given /\ given \subseteq mem.cls.all
       IN IF fits THEN outcome \in ConstructOutcomes
          ELSE outcome = "TypeError__init__"
    /\ LET e == Raised(outcome) IN
       CASE outcome = "ok" ->
                /\ mem' = [mem EXCEPT !.result = [out |-> "ok", exc |-> NoExc]]
                /\ pc' = "done"
                /\ hist' = Append(hist, Event("construct", outcome))
         [] outcome = "CollectionNotFound" /\ mem.create ->
                \* handle_collection_not_found logs its warning and asks
                /\ mem' = [mem EXCEPT
                             !.collection = Get(heap[mem.config], "collection"),
                             !.storage_name = Get(heap[mem.config], "instance_name")]
                /\ pc' = "confirm"
                /\ hist' = hist \o <<Event("construct", outcome),
                                     Event("recovery", "warning")>>
         [] outcome = "CollectionNotFound" /\ ~mem.create ->
                /\ mem' = Fail("construct", e, e)
                /\ pc' = "done"
                /\ hist' = Append(hist, Event("construct", outcome))
         [] outcome = "KeyboardInterrupt" ->
                /\ mem' = Fail("construct", e, e)
                /\ pc' = "done"
                /\ hist' = Append(hist, Event("construct", outcome))
         [] OTHER ->
                /\ mem' = Fail("construct", e,
                               handle_storage_init_error(mem.cls, heap[mem.new_config], e))
                /\ pc' = "done"
                /\ hist' = Append(hist, Event("construct", outcome))
    /\ UNCHANGED <<fs, inp, storages, heap>>

\* the variant that attempts the creation whatever the answer
FConfirmIgnoresAnswer(answer) ==
    /\ pc = "confirm"
    /\ hist' = Append(hist, Event("confirm", answer))
    /\ mem' = mem
    /\ pc' = "create_collection"
    /\ UNCHANGED <<fs, inp, storages, heap>>

\* click.confirm("Should vdirsyncer attempt to create it?")
FConfirm(answer) ==
    /\ pc = "confirm"
    /\ hist' = Append(hist, Event("confirm", answer))
    /\ CASE answer = "yes" ->
                /\ mem' = mem
                /\ pc' = "create_collection"
         [] answer = "no" ->
                /\ mem' = Fail("declined", NoExc,
                               UnableToFindOrCreate(mem.collection, mem.storage_name))
                /\ pc' = "done"
         [] OTHER ->
                /\ mem' = Fail("confirm", Exc("Abort"), Exc("Abort"))
                /\ pc' = "done"
    /\ UNCHANGED <<fs, inp, storages, heap>>

\* what cls.create_collection(**kwargs) may hand back: the arguments it was
\* given, the arguments with the collection it settled on, or only the
\* attributes of the collection it created
CreateCollectionOutcomes ==
    {"returned", "renamed", "partial", "NotImplementedError", "OSError"}

create_collection(kwargs, outcome) ==
    CASE outcome = "returned" -> kwargs
      [] outcome = "renamed" -> With(kwargs, "collection", "created")
      [] OTHER -> [k \in {"collection"} |-> "created"]

\* storage_type = config["type"]; cls, config = storage_class_from_config(config);
\* config["collection"] = collection; args = await cls.create_collection(**config);
\* args["type"] = storage_type; return args.  The caller then calls
\* storage_instance_from_config(args, create=False)
FCreateCollection(outcome) ==
    /\ pc = "create_collection"
    /\ hist' = Append(hist, Event("create_collection", outcome))
    /\ LET storage_type == heap[mem.config]["type"]
           r == storage_class_from_config(storages, heap, mem.config)
           h == dict_setitem(r.heap, r.config, "collection", mem.collection)
           args == dict_new(h, create_collection(h[r.config], outcome))
       IN
       /\ storages' = r.storages
       /\ CASE outcome \in {"returned", "renamed", "partial"} ->
                  /\ heap' = dict_setitem(args.heap, args.ref, "type", storage_type)
                  /\ mem' = [Frame(args.ref, RetryCreate)
                               EXCEPT !.collection = mem.collection,
                                      !.storage_name = mem.storage_name]
                  /\ pc' = "call"
            [] outcome = "NotImplementedError" ->
                  /\ heap' = h
                  /\ mem' = Fail("create_collection", Exc(outcome),
                                 UnableToFindOrCreate(mem.collection, mem.storage_name))
                  /\ pc' = "done"
            [] OTHER ->
                  /\ heap' = h
                  /\ mem' = Fail("create_collection", Exc(outcome), Exc(outcome))
                  /\ pc' = "done"
    /\ UNCHANGED <<fs, inp>>

InitFactory ==
    /\ inp \in [config : Configs, create : BOOLEAN]
    /\ mem = Frame(CallerConfig, inp.create)
    /\ pc = "call"
    /\ hist = << >>
    /\ fs = NoDisk
    /\ storages = Unresolved
    /\ heap = <<inp.config>>

NextFactory ==
    \/ FResolve
    \/ \E outcome \in ConstructOutcomes : FConstruct(outcome)
    \/ \E answer \in {"yes", "no", "abort"} : FConfirm(answer)
    \/ \E outcome \in CreateCollectionOutcomes : FCreateCollection(outcome)

SpecFactory == InitFactory /\ [][NextFactory]_vars

(***************************************************************************)
(* Claims about the storage factory                                        *)
(***************************************************************************)
Failed == pc = "done" /\ mem.result.out = "raise"

NamesAParameter ==
    /\ mem.raised.step = "construct"
    /\ mem.raised.exc.kind = "TypeError" /\ mem.raised.exc.init
    /\ \/ mem.cls.required \ DOMAIN heap[mem.new_config] # {}
       \/ DOMAIN heap[mem.new_config] \ mem.cls.all # {}

\* the parameter report cannot be built: the config constructed from has no
\* instance_name, which only a mapping returned by create_collection can lack
ReportLacksName ==
    NamesAParameter /\ "instance_name" \notin DOMAIN heap[mem.new_config]

Count(ev) == Cardinality({i \in 1..Len(hist) : hist[i].ev = ev})

FirstCollectionNotFound ==
    /\ inp.create
    /\ hist # << >>
    /\ hist[1].ev = "construct" /\ hist[1].out = "CollectionNotFound"

Declined == \E i \in 1..Len(hist) : hist[i].ev = "confirm" /\ hist[i].out = "no"

\* C8: with create=True, a construction that fails with collection-not-found runs
\* the recovery exactly once and retries the construction at most once, the retry
\* with create=False, so that no step is taken more than a fixed number of times;
\* when the user declines there is no retry and the call fails with a UserError
\* that names the collection and the storage's instance name.
C8_OneRecoveryOneRetry ==
    FirstCollectionNotFound =>
        /\ Count("recovery") = 1
        /\ Count("confirm") <= 1
        /\ Count("create_collection") <= 1
        /\ Count("construct") <= 2
        /\ \A i \in 2..Len(hist) : hist[i].ev = "construct" => ~hist[i].create
        /\ Declined =>
              /\ Failed
              /\ Count("construct") = 1
              /\ mem.result.exc =
                    UnableToFindOrCreate(Get(inp.config, "collection"),
                                         Get(inp.config, "instance_name"))

\* the retry failed with collection-not-found again and the call ended
C8_Witness ==
    /\ FirstCollectionNotFound
    /\ Failed
    /\ Count("construct") = 2
    /\ hist[Len(hist)].out = "CollectionNotFound"
    /\ "collection" \in DOMAIN inp.config

\* the first storage_class_from_config(config) of the call has returned or raised
FirstResolved == pc # "call" /\ mem.config = CallerConfig

\* C11: storage_class_from_config fails with a UserError exactly when the type of
\* the config is no registered storage name; otherwise it returns the registered
\* implementation of that name and a config that is the caller's without the
\* type key; the caller's config is the same mapping as before in both cases.
C11_ClassAndConfigWithoutType ==
    LET type == inp.config["type"] IN
    /\ heap[CallerConfig] = inp.config
    /\ FirstResolved =>
          IF type \notin DOMAIN RegisteredStorages
          THEN /\ Failed
               /\ mem.raised.step = "storage_class_from_config"
               /\ mem.result.exc.kind = "UserError"
               /\ mem.result.exc.text = "Unknown storage type"
               /\ mem.result.exc.storage = type
          ELSE /\ mem.raised.step # "storage_class_from_config"
               /\ mem.cls = Import(RegisteredStorages[type])
               /\ mem.cls.storage_name = type
               /\ mem.new_config # CallerConfig
               /\ Without(heap[mem.new_config], "connector")
                     = Without(inp.config, "type")

\* a registered type was resolved: the copy has lost its type, the caller's
\* mapping still has it
C11_Witness ==
    /\ FirstResolved /\ pc = "construct"
    /\ inp.config["type"] = "caldav"
    /\ "type" \notin DOMAIN heap[mem.new_config]
    /\ "type" \in DOMAIN heap[CallerConfig]

Answered(answer) ==
    \E i \in 1..Len(hist) : hist[i].ev = "confirm" /\ hist[i].out = answer

\* C12: the recovery is all-or-nothing for the config: in every state of the
\* call the caller's config is the mapping that was passed in, whether the
\* collection was created, the user declined, creation is unimplemented or the
\* prompt was aborted; the config of the retry is a mapping of its own that
\* holds the original type; an abort at the prompt leaves the call as Abort,
\* untranslated, with create_collection never called and no retry.
C12_AllOrNothingConfig ==
    /\ heap[CallerConfig] = inp.config
    /\ \A ref \in 1..Len(heap) : ref # CallerConfig =>
          \/ "type" \notin DOMAIN heap[ref]
          \/ ref = mem.config /\ heap[ref]["type"] = inp.config["type"]
    /\ mem.config # CallerConfig =>
          /\ Answered("yes")
          /\ Get(heap[mem.config], "type") = inp.config["type"]
    /\ Answered("abort") =>
          /\ Failed
          /\ mem.result.exc = Exc("Abort")
          /\ Count("create_collection") = 0
          /\ Count("construct") = 1
    /\ Answered("no") => Count("create_collection") = 0

\* the collection was created under another name: the retry starts from the
\* returned mapping, the caller's config still names the collection asked for
C12_Witness ==
    /\ pc = "call" /\ mem.config # CallerConfig
    /\ heap[mem.config]["collection"] = "created"
    /\ Get(heap[CallerConfig], "collection") = "work"
    /\ Count("create_collection") = 1

\* the except Exception clause ran: handle_storage_init_error(cls, new_config)
InitErrorHandled ==
    /\ pc = "done"
    /\ mem.raised.step = "construct"
    /\ mem.raised.exc.kind \notin {"CollectionNotFound", "KeyboardInterrupt"}

\* C14: for a construction failure that is a parameter mismatch,
\* handle_storage_init_error raises a UserError that names exactly the required
\* parameters the config lacks and exactly the config keys the implementation
\* does not allow, when there is any; when there is none, or the failure is no
\* parameter mismatch, it raises the original failure; it never returns.
C14_NamesMissingAndInvalid ==
    InitErrorHandled =>
        LET e == mem.raised.exc
            exc == mem.result.exc
            given == DOMAIN heap[mem.new_config]
            missing == {p \in mem.cls.required : p \notin given}
            invalid == {k \in given : k \notin mem.cls.all}
        IN /\ mem.result.out = "raise"
           /\ IF e.kind = "TypeError" /\ e.init /\ (missing # {} \/ invalid # {})
              THEN /\ exc.kind = "UserError"
                   /\ exc.missing = missing
                   /\ exc.invalid = invalid
              ELSE exc = e

\* C15: when the user confirmed and create_collection succeeded, the config that
\* handle_collection_not_found returns holds every key of the original config
\* (instance_name among them), the original type, and the collection that
\* create_collection returned, whatever mapping create_collection returned.
C15_ReturnedConfigMerged ==
    mem.config # CallerConfig =>
        LET returned == heap[mem.config] IN
        /\ \A k \in DOMAIN inp.config : k \in DOMAIN returned
        /\ Get(returned, "type") = inp.config["type"]
        /\ Get(returned, "collection") =
              IF \E i \in 1..Len(hist) :
                    hist[i].ev = "create_collection" /\ hist[i].out = "returned"
              THEN Get(inp.config, "collection")
              ELSE "created"

Returns == {"returned", "renamed", "partial"}

\* C19: within one storage_instance_from_config call the prompt is asked only
\* right after a construction that failed with collection-not-found under
\* create=True, and at most once; create_collection is called only right after
\* the answer yes, and at most once; a construction is retried only right after
\* create_collection returned a mapping.
C19_RecoveryOrder ==
    /\ Count("confirm") <= 1
    /\ Count("create_collection") <= 1
    /\ \A i \in 1..Len(hist) :
          /\ hist[i].ev = "recovery" =>
                /\ i > 1
                /\ hist[i - 1].ev = "construct"
                /\ hist[i - 1].out = "CollectionNotFound" /\ hist[i - 1].create
          /\ hist[i].ev = "confirm" => i > 1 /\ hist[i - 1].ev = "recovery"
          /\ hist[i].ev = "create_collection" =>
                i > 1 /\ hist[i - 1].ev = "confirm" /\ hist[i - 1].out = "yes"
          /\ hist[i].ev = "construct" /\ i > 1 =>
                hist[i - 1].ev = "create_collection" /\ hist[i - 1].out \in Returns
    /\ pc = "confirm" => hist[Len(hist)].ev = "recovery"
    /\ pc = "create_collection" => hist[Len(hist)].out = "yes"
    /\ (pc \in {"call", "construct"} /\ hist # << >>) =>
          hist[Len(hist)].out \in Returns

\* the whole recovery in order: construction, prompt, creation, retry
C19_Witness ==
    /\ Len(hist) = 5
    /\ hist[1].out = "CollectionNotFound"
    /\ hist[3].ev = "confirm" /\ hist[3].out = "yes"
    /\ hist[4].ev = "create_collection" /\ hist[4].out = "returned"
    /\ hist[5].ev = "construct" /\ hist[5].out = "ok"

(***************************************************************************)
(* SpecCli: handle_cli_error(status_name, e)                               *)
(***************************************************************************)
\* the classes an exception of class c is an instance of
Mro(c) ==
    CASE c \in {"UserError", "InvalidResponse"} ->
             {c, "Error", "ValueError", "Exception", "BaseException"}
      [] c \in {"StorageEmpty", "PartialSync", "SyncConflict", "IdentConflict"} ->
             {c, "SyncError", "Error", "Exception", "BaseException"}
      [] c \in {"PairNotFound", "CollectionRequired", "CollectionNotFound"} ->
             {c, "Error", "Exception", "BaseException"}
      [] c \in {"Abort", "JobFailed"} ->
             {c, "RuntimeError", "Exception", "BaseException"}
      [] c \in {"KeyboardInterrupt", "SystemExit", "CancelledError"} ->
             {c, "BaseException"}
      [] OTHER -> {c, "Exception", "BaseException"}

ErrorClasses ==
    {"UserError", "StorageEmpty", "PartialSync", "SyncConflict", "IdentConflict",
     "Abort", "KeyboardInterrupt", "JobFailed", "PairNotFound", "InvalidResponse",
     "CollectionRequired", "CollectionNotFound", "ValueError", "RuntimeError",
     "OSError", "SystemExit", "CancelledError"}

\* the except clauses, in the order they are written
Clauses ==
    << [classes |-> {"UserError"}, level |-> "critical", msg |-> "the error itself"],
       [classes |-> {"StorageEmpty"}, level |-> "error",
        msg |-> "Storage was completely emptied"],
       [classes |-> {"PartialSync"}, level |-> "error",
        msg |-> "Attempted change on a read-only storage"],
       [classes |-> {"SyncConflict"}, level |-> "error",
        msg |-> "One item changed on both sides"],
       [classes |-> {"IdentConflict"}, level |-> "error",
        msg |-> "Storage contains multiple items with the same UID"],
       [classes |-> {"Abort", "KeyboardInterrupt", "JobFailed"}, level |-> "none",
        msg |-> ""],
       [classes |-> {"PairNotFound"}, level |-> "error", msg |-> "Pair does not exist"],
       [classes |-> {"InvalidResponse"}, level |-> "error",
        msg |-> "The server returned something vdirsyncer doesn't understand"],
       [classes |-> {"CollectionRequired"}, level |-> "error",
        msg |-> "One or more storages don't support collections = null"],
       [classes |-> {"Exception"}, level |-> "error", msg |-> "Unknown error occurred"] >>

Matching(raised) ==
    {i \in 1..Len(Clauses) : Clauses[i].classes \cap Mro(raised) # {}}

LastMatch(raised) ==
    CHOOSE i \in Matching(raised) : \A j \in Matching(raised) : j <= i

\* the clause an exception is handled by: the first one that matches
FirstMatch(raised) ==
    CHOOSE i \in Matching(raised) : \A j \in Matching(raised) : i <= j

Log(level, msg, status_name) == [level |-> level, msg |-> msg, status_name |-> status_name]

handle_cli_error(status_name, e, inflight) ==
    LET raised == IF e # None THEN e                 \* raise e
                  ELSE IF inflight # None THEN inflight   \* raise
                  ELSE "RuntimeError"       \* No active exception to reraise
    IN IF Matching(raised) = {}
       THEN [returned |-> FALSE, raised |-> raised, logs |-> << >>]
       ELSE LET clause == Clauses[FirstMatch(raised)] IN
            [returned |-> TRUE,
             raised |-> raised,
             logs |->
                CASE clause.level = "none" -> << >>
                  [] clause.classes = {"Exception"} ->
                         <<Log("error", clause.msg, status_name),
                           Log("debug", "traceback", None)>>
                  [] clause.classes = {"UserError"} ->
                         <<Log(clause.level, clause.msg, None)>>
                  [] clause.classes \subseteq {"PairNotFound", "InvalidResponse",
                                               "CollectionRequired"} ->
                         <<Log(clause.level, clause.msg, None)>>
                  [] OTHER -> <<Log(clause.level, clause.msg, status_name)>>]

HandleCliError ==
    /\ pc = "call"
    /\ LET r == handle_cli_error(inp.status_name, inp.e, inp.inflight) IN
       /\ mem' = [returned |-> r.returned, raised |-> r.raised]
       /\ hist' = r.logs
    /\ pc' = "done"
    /\ UNCHANGED <<fs, inp, storages, heap>>

InitCli ==
    /\ inp \in [status_name : {None, "pair/coll"},
                e : ErrorClasses \cup {None},
                inflight : ErrorClasses \cup {None}]
    /\ mem = [returned |-> FALSE, raised |-> None]
    /\ hist = << >>
    /\ pc = "call"
    /\ fs = NoDisk
    /\ storages = Unresolved
    /\ heap = << >>

NextCli == HandleCliError

SpecCli == InitCli /\ [][NextCli]_vars

(***************************************************************************)
(* Claims about the error reporter                                         *)
(***************************************************************************)
\* C9: handle_cli_error never lets an exception escape: whatever error is passed
\* in or in flight, and when there is none, the call returns normally.
C9_NeverEscapes == pc = "done" => mem.returned

Aborted == {"Abort", "KeyboardInterrupt", "JobFailed"}

\* the message each reported kind of the taxonomy is given
Tailored ==
    [UserError |-> "the error itself",
     StorageEmpty |-> "Storage was completely emptied",
     PartialSync |-> "Attempted change on a read-only storage",
     SyncConflict |-> "One item changed on both sides",
     IdentConflict |-> "Storage contains multiple items with the same UID",
     PairNotFound |-> "Pair does not exist",
     InvalidResponse |-> "The server returned something vdirsyncer doesn't understand",
     CollectionRequired |-> "One or more storages don't support collections = null"]

Messages(levels) == {i \in 1..Len(hist) : hist[i].level \in levels}

\* C10: every error is handled by exactly one clause: an error of a reported kind
\* yields exactly one message, the one of its kind; an abort (click.Abort,
\* KeyboardInterrupt, JobFailed) yields none; an unclassified error yields one
\* generic message, and its trace at debug level only.
C10_OneMessagePerKind ==
    (pc = "done" /\ mem.returned) =>
        LET visible == Messages({"critical", "error", "warning", "info"})
            debug == Messages({"debug"})
        IN CASE mem.raised \in Aborted -> hist = << >>
             [] mem.raised \in DOMAIN Tailored ->
                    /\ Len(hist) = 1 /\ visible = {1}
                    /\ hist[1].msg = Tailored[mem.raised]
             [] OTHER ->
                    /\ Cardinality(visible) = 1 /\ Cardinality(debug) = 1
                    /\ \A i \in visible : hist[i].msg = "Unknown error occurred"
                    /\ \A i \in 1..Len(hist) :
                          hist[i].msg = "traceback" <=> hist[i].level = "debug"

\* a UserError, which the last clause would match as well, was reported once
C10_Witness ==
    /\ pc = "done" /\ mem.returned
    /\ mem.raised = "UserError"
    /\ Len(hist) = 1 /\ hist[1].level = "critical"

====
